---- MODULE Spec2Model ----
(***************************************************************************)
(* Model of utils_library: the parallel map runners of parallel_utils.py   *)
(* (run_parallel_list, run_parallel_stream over an executor pool) and the  *)
(* file helpers of io_utils.py (copy_file, move_file, save_file,           *)
(* create_folderpath) over a small file system.                            *)
(***************************************************************************)
EXTENDS Integers, Sequences, FiniteSets, TLC

\* ------------------------------------------------------------------ bounds
MaxLen == 2
MaxWorkers == 3

\* ------------------------------------------------------- python values
\* Every Python value is a record: kind, an integer payload, the elements.
IntV(k) == [kind |-> "int", n |-> k, elems |-> <<>>]
StrV(chars) == [kind |-> "str", n |-> 0, elems |-> chars]
TupleV(es) == [kind |-> "tuple", n |-> 0, elems |-> es]
ListV(es) == [kind |-> "list", n |-> 0, elems |-> es]
NoneV == [kind |-> "none", n |-> 0, elems |-> <<>>]
TypeErrorV == [kind |-> "TypeError", n |-> 0, elems |-> <<>>]

\* The input items the model draws from: two scalars, a pair as a tuple and
\* one as a list, the empty tuple and a string (an iterable that is not unpacked).
Items ==
  { IntV(1),
    IntV(2),
    TupleV(<<IntV(1), IntV(2)>>),
    ListV(<<IntV(2), IntV(2)>>),
    TupleV(<<>>),
    StrV(<<StrV(<<>>), StrV(<<>>)>>) }

Funcs == {"square", "add"}

\* The call targets of the test-suite: square(x) and add(x, y).  A call with
\* the wrong number of arguments, or with a non-number, raises TypeError.
square(args) ==
  IF Len(args) = 1 /\ args[1].kind = "int"
  THEN [ok |-> TRUE, val |-> IntV(args[1].n * args[1].n)]
  ELSE [ok |-> FALSE, val |-> TypeErrorV]

add(args) ==
  IF Len(args) = 2 /\ args[1].kind = "int" /\ args[2].kind = "int"
  THEN [ok |-> TRUE, val |-> IntV(args[1].n + args[2].n)]
  ELSE [ok |-> FALSE, val |-> TypeErrorV]

Invoke(f, args) == IF f = "square" THEN square(args) ELSE add(args)

\* _call_func: the positional arguments the target is called with.
CallArgsUnpackAll(item) ==
  IF item.kind \in {"tuple", "list", "str"} THEN item.elems ELSE <<item>>

CallArgs(item) ==
  IF item.kind \in {"tuple", "list"} THEN item.elems ELSE <<item>>

\* ---------------------------------------------------------------- state
VARIABLES
  func,        \* the call target
  data,        \* the input items, in input order
  mode,        \* "list": run_parallel_list, "stream": run_parallel_stream
  workers,     \* max_workers of the pool
  pc,          \* position of the runner body
  pool,        \* "none", "open", "closed"
  nsub,        \* number of items submitted so far (futures 1..nsub exist)
  fstate,      \* per future: "none", "pending", "running", "finished"
  fres,        \* per future: outcome of the task, once finished
  ncalls,      \* per future: how often the target was invoked
  callArgs,    \* per future: the arguments of the invocation
  finishOrder, \* the futures in the order their tasks finished
  waiter,      \* as_completed has installed its waiter
  acInit,      \* as_completed: futures found finished at its start, not yet handed out
  acSnapshot,  \* as_completed: all futures found finished at its start
  acQueue,     \* as_completed: waiter.finished_futures, in finishing order
  collected,   \* futures handed out by as_completed, in order
  results,     \* run_parallel_list: the result slots
  written,     \* run_parallel_list: slots assigned by a task's result
  yielded,     \* run_parallel_stream: values yielded to the consumer
  yieldedIdx,  \* run_parallel_stream: the futures of the yielded values
  pulling,     \* the consumer is inside next() on the generator
  closing,     \* GeneratorExit is unwinding the generator
  exc,         \* the exception propagating out of the body, or NoneV
  lastPull,    \* what the consumer's last next() gave
  ref,         \* outcome of the first successful call with this func and data
  refWorkers,  \* the workers of that call (0: none yet)
  fs,          \* the file system: path |-> node
  fsBefore,    \* the file system before the last file operation
  op           \* the last file operation: its arguments and its outcome

pvars == <<func, data, mode, workers, pc, pool, nsub, fstate, fres, ncalls,
           callArgs, finishOrder, waiter, acInit, acSnapshot, acQueue,
           collected, results, written, yielded, yieldedIdx, pulling,
           closing, exc, lastPull, ref, refWorkers>>

iovars == <<fs, fsBefore, op>>

vars == <<pvars, iovars>>

N == Len(data)
Idx == 1..N

SeqsUpTo(S, k) == UNION {[1..m -> S] : m \in 0..k}

Running == Cardinality({i \in Idx : fstate[i] = "running"})

\* The number of tasks the comprehension over the input submits.
ToSubmitPoolWide == IF workers < N THEN workers ELSE N

ToSubmit == N

\* idx = future_to_index[future]: the slot a future's result is stored in.
SlotOfCompletion(i) == Len(collected) + 1

SlotOf(i) == i

\* future.result() re-raises the exception of a failed task.
ResultNeverRaises(i) == FALSE

ResultRaises(i) == ~fres[i].ok

\* ------------------------------------------------------------ file system
\* The paths of the modelled directory tree (relative to a base folder that
\* always exists): folders d and d/e, and files in the base, d and d/e.
D == <<"d">>
DE == <<"d", "e">>
Folders == {D, DE}
FileTypes == {"csv", "txt", "json"}
FileName(filename, filetype) == filename \o "." \o filetype
CopyPaths == {<<"f.txt">>, D, Append(D, "f.txt"), DE, Append(DE, "f.txt")}
UPaths == CopyPaths \cup
          {Append(d, FileName("f", t)) : d \in Folders, t \in FileTypes}

Absent == [kind |-> "absent", content |-> ""]
DirNode == [kind |-> "dir", content |-> ""]
FileNode(c) == [kind |-> "file", content |-> c]
InitialNodes == {Absent, DirNode, FileNode("old"), FileNode("new")}

Parent(p) == SubSeq(p, 1, Len(p) - 1)
Name(p) == p[Len(p)]
Prefixes(p) == {SubSeq(p, 1, k) : k \in 1..Len(p)}

IsDir(f, p) == p = <<>> \/ (p \in UPaths /\ f[p].kind = "dir")
IsFile(f, p) == p \in UPaths /\ f[p].kind = "file"
\* Path.exists()
Exists(f, p) == IsDir(f, p) \/ IsFile(f, p)

\* A tree: whatever exists lies in an existing folder; only d and d/e are
\* ever folders.
ValidFS(f) ==
  \A p \in UPaths :
     /\ f[p].kind # "absent" => IsDir(f, Parent(p))
     /\ f[p].kind = "dir" => p \in Folders

NoOp == [name |-> "none", src |-> <<>>, dst |-> <<>>, overwrite |-> FALSE,
         data |-> NoneV, filetype |-> "", exc |-> "none", ret |-> <<>>]

\* The data objects handed to save_file: a string and a DataFrame.
StrData == [kind |-> "str", n |-> 0, elems |-> <<>>]
FrameData == [kind |-> "DataFrame", n |-> 0, elems |-> <<>>]
\* str(data) and DataFrame.to_csv(index=False), as the text written.
StrOf(obj) == IF obj.kind = "str" THEN "new" ELSE "repr(df)"
ToCsv(obj) == "csv(df)"

\* Path.mkdir(parents=True, exist_ok=True): the error it raises, if any ...
MkdirError(f, p) ==
  IF IsFile(f, p) THEN "FileExistsError"
  ELSE IF \E q \in Prefixes(p) : IsFile(f, q) THEN "NotADirectoryError"
  ELSE "none"

\* ... and the tree it leaves: every missing folder on the path is created.
MkdirOnlyLeaf(f, p) ==
  [q \in UPaths |-> IF q = p /\ f[q].kind = "absent" THEN DirNode ELSE f[q]]

MkdirParents(f, p) ==
  [q \in UPaths |->
     IF q \in Prefixes(p) /\ f[q].kind = "absent" THEN DirNode ELSE f[q]]

\* The overwrite guard: the target exists and overwrite is False.
RefusedNever(f, dst, overwrite) == FALSE

Refused(f, dst, overwrite) == Exists(f, dst) /\ ~overwrite

\* shutil.copy2(src, dst): into dst, or into dst/<name of src> when dst is a
\* folder.
Copy2(f, src, dst) ==
  LET real == IF IsDir(f, dst) THEN Append(dst, Name(src)) ELSE dst
  IN IF real = src THEN [exc |-> "SameFileError", fs |-> f]
     ELSE IF IsDir(f, src) THEN [exc |-> "IsADirectoryError", fs |-> f]
     ELSE [exc |-> "none", fs |-> [f EXCEPT ![real] = f[src]]]

\* shutil.move(src, dst) of a file: a rename onto dst, or into the folder dst
\* unless the name is taken there.
Move(f, src, dst) ==
  LET real == IF IsDir(f, dst) THEN Append(dst, Name(src)) ELSE dst
  IN IF IsDir(f, dst) /\ Exists(f, real) THEN [exc |-> "Error", fs |-> f]
     ELSE IF real = src THEN [exc |-> "none", fs |-> f]
     ELSE [exc |-> "none",
           fs |-> [f EXCEPT ![real] = f[src], ![src] = Absent]]

\* The body shared by copy_file and move_file: source check, folder
\* creation, overwrite guard, then the transfer.
Transfer(f, src, dst, overwrite, how) ==
  IF ~Exists(f, src) THEN [exc |-> "FileNotFoundError", fs |-> f]
  ELSE IF MkdirError(f, Parent(dst)) # "none"
  THEN [exc |-> MkdirError(f, Parent(dst)), fs |-> f]
  ELSE LET f1 == MkdirParents(f, Parent(dst))
       IN IF Refused(f1, dst, overwrite)
          THEN [exc |-> "FileExistsError", fs |-> f1]
          ELSE IF how = "copy" THEN Copy2(f1, src, dst)
          ELSE Move(f1, src, dst)

\* save_file: folder creation, path from name and type, overwrite guard,
\* then the write (to_csv for a DataFrame saved as csv, str(data) otherwise).
Save(f, obj, folder, filename, filetype, overwrite) ==
  LET filepath == Append(folder, FileName(filename, filetype))
  IN IF MkdirError(f, folder) # "none"
     THEN [exc |-> MkdirError(f, folder), fs |-> f]
     ELSE LET f1 == MkdirParents(f, folder)
          IN IF Refused(f1, filepath, overwrite)
             THEN [exc |-> "FileExistsError", fs |-> f1]
             ELSE [exc |-> "none",
                   fs |-> [f1 EXCEPT ![filepath] =
                             FileNode(IF filetype = "csv"
                                         /\ obj.kind = "DataFrame"
                                      THEN ToCsv(obj) ELSE StrOf(obj))]]

\* ----------------------------------------------------------------- calls
\* The state of one call before its body has started.
Fresh(f, d, m, w) ==
  /\ func = f /\ data = d /\ mode = m /\ workers = w
  /\ pc = IF m = "list" THEN "start" ELSE "created"
  /\ pool = "none"
  /\ nsub = 0
  /\ fstate = [i \in 1..Len(d) |-> "none"]
  /\ fres = [i \in 1..Len(d) |-> [ok |-> TRUE, val |-> NoneV]]
  /\ ncalls = [i \in 1..Len(d) |-> 0]
  /\ callArgs = [i \in 1..Len(d) |-> <<>>]
  /\ finishOrder = <<>>
  /\ waiter = FALSE
  /\ acInit = {}
  /\ acSnapshot = {}
  /\ acQueue = <<>>
  /\ collected = <<>>
  /\ results = <<>>
  /\ written = {}
  /\ yielded = <<>>
  /\ yieldedIdx = <<>>
  /\ pulling = FALSE
  /\ closing = FALSE
  /\ exc = NoneV
  /\ lastPull = "none"

Init ==
  /\ \E f \in Funcs, d \in SeqsUpTo(Items, MaxLen), m \in {"list", "stream"},
        w \in 1..MaxWorkers : Fresh(f, d, m, w)
  /\ ref = <<>>
  /\ refWorkers = 0
  /\ fs = [p \in UPaths |-> Absent]
  /\ fsBefore = fs
  /\ op = NoOp

\* --------------------------------------------------------------- consumer
\* next(gen) on a generator that has not finished: the body runs to its
\* next yield, its end or its exception.
ConsumerPull ==
  /\ mode = "stream"
  /\ ~pulling /\ ~closing
  /\ pc \in {"created", "yielded"}
  /\ pulling' = TRUE
  /\ pc' = IF pc = "created" THEN "start" ELSE "collect"
  /\ UNCHANGED <<func, data, mode, workers, pool, nsub, fstate, fres, ncalls,
                 callArgs, finishOrder, waiter, acInit, acSnapshot, acQueue,
                 collected, results, written, yielded, yieldedIdx, closing,
                 exc, lastPull, ref, refWorkers>>
  /\ UNCHANGED iovars

\* next(gen) on a finished generator raises StopIteration.
ConsumerPullFinished ==
  /\ mode = "stream"
  /\ pc \in {"exhausted", "raised", "closed"}
  /\ lastPull' = "stop"
  /\ UNCHANGED <<func, data, mode, workers, pc, pool, nsub, fstate, fres,
                 ncalls, callArgs, finishOrder, waiter, acInit, acSnapshot,
                 acQueue, collected, results, written, yielded, yieldedIdx,
                 pulling, closing, exc, ref, refWorkers>>
  /\ UNCHANGED iovars

\* gen.close(): on a generator that never started nothing runs; on one
\* suspended at the yield, GeneratorExit unwinds through the with block.
ConsumerClose ==
  /\ mode = "stream"
  /\ ~pulling /\ ~closing
  /\ pc \in {"created", "yielded"}
  /\ IF pc = "created"
     THEN /\ pc' = "closed"
          /\ UNCHANGED <<closing, waiter>>
     ELSE /\ pc' = "exit"
          /\ closing' = TRUE
          /\ waiter' = FALSE
  /\ UNCHANGED <<func, data, mode, workers, pool, nsub, fstate, fres, ncalls,
                 callArgs, finishOrder, acInit, acSnapshot, acQueue,
                 collected, results, written, yielded, yieldedIdx, pulling,
                 exc, lastPull, ref, refWorkers>>
  /\ UNCHANGED iovars

\* ----------------------------------------------------------------- runner
\* Entry of the body: materialise and allocate (list), create the pool.
Enter ==
  /\ pc = "start"
  /\ pool' = "open"
  /\ results' = IF mode = "list" THEN [i \in Idx |-> NoneV] ELSE results
  /\ pc' = "submit"
  /\ UNCHANGED <<func, data, mode, workers, nsub, fstate, fres, ncalls,
                 callArgs, finishOrder, waiter, acInit, acSnapshot, acQueue,
                 collected, written, yielded, yieldedIdx, pulling, closing,
                 exc, lastPull, ref, refWorkers>>
  /\ UNCHANGED iovars

\* executor.submit(_call_func, func, item) for the next item of the input.
Submit ==
  /\ pc = "submit"
  /\ nsub < ToSubmit
  /\ nsub' = nsub + 1
  /\ fstate' = [fstate EXCEPT ![nsub + 1] = "pending"]
  /\ UNCHANGED <<func, data, mode, workers, pc, pool, fres, ncalls, callArgs,
                 finishOrder, waiter, acInit, acSnapshot, acQueue, collected,
                 results, written, yielded, yieldedIdx, pulling, closing,
                 exc, lastPull, ref, refWorkers>>
  /\ UNCHANGED iovars

\* as_completed(futures): the futures already finished are set aside (a
\* set), the waiter is installed on all of them.
AsCompletedStart ==
  /\ pc = "submit"
  /\ nsub = ToSubmit
  /\ acInit' = {i \in Idx : fstate[i] = "finished"}
  /\ acSnapshot' = {i \in Idx : fstate[i] = "finished"}
  /\ acQueue' = <<>>
  /\ waiter' = TRUE
  /\ pc' = "collect"
  /\ UNCHANGED <<func, data, mode, workers, pool, nsub, fstate, fres, ncalls,
                 callArgs, finishOrder, collected, results, written, yielded,
                 yieldedIdx, pulling, closing, exc, lastPull, ref, refWorkers>>
  /\ UNCHANGED iovars

\* The futures as_completed may hand out next: any of the set found finished
\* at its start, and after those the head of the waiter's list.
NextCompletedLifo ==
  IF acInit # {} THEN acInit
  ELSE IF acQueue # <<>> THEN {acQueue[Len(acQueue)]}
  ELSE {}

NextCompleted ==
  IF acInit # {} THEN acInit
  ELSE IF acQueue # <<>> THEN {Head(acQueue)}
  ELSE {}

\* One round of the loop over as_completed: future.result() either gives
\* the value (stored in its slot, or yielded) or raises the task's exception.
Collect ==
  /\ pc = "collect"
  /\ \E i \in NextCompleted :
       /\ acInit' = acInit \ {i}
       /\ acQueue' = IF acInit # {} THEN acQueue
                     ELSE SelectSeq(acQueue, LAMBDA j : j # i)
       /\ collected' = Append(collected, i)
       /\ IF ~ResultRaises(i)
          THEN /\ exc' = exc
               /\ waiter' = waiter
               /\ IF mode = "list"
                  THEN /\ results' = [results EXCEPT ![SlotOf(i)] = fres[i].val]
                       /\ written' = written \cup {SlotOf(i)}
                       /\ pc' = "collect"
                       /\ UNCHANGED <<yielded, yieldedIdx, pulling, lastPull>>
                  ELSE /\ yielded' = Append(yielded, fres[i].val)
                       /\ yieldedIdx' = Append(yieldedIdx, i)
                       /\ pulling' = FALSE
                       /\ lastPull' = "value"
                       /\ pc' = "yielded"
                       /\ UNCHANGED <<results, written>>
          ELSE /\ exc' = fres[i].val
               /\ waiter' = FALSE
               /\ pc' = "exit"
               /\ UNCHANGED <<results, written, yielded, yieldedIdx, pulling,
                              lastPull>>
  /\ UNCHANGED <<func, data, mode, workers, pool, nsub, fstate, fres, ncalls,
                 callArgs, finishOrder, acSnapshot, closing, ref, refWorkers>>
  /\ UNCHANGED iovars

\* as_completed ends once it has handed out every future it was given.
AllHandedOutEarly == acInit = {} /\ acQueue = <<>>

AllHandedOut == Len(collected) = nsub

\* as_completed has handed out every future: the loop ends.
CollectDone ==
  /\ pc = "collect"
  /\ AllHandedOut
  /\ waiter' = FALSE
  /\ pc' = "exit"
  /\ UNCHANGED <<func, data, mode, workers, pool, nsub, fstate, fres, ncalls,
                 callArgs, finishOrder, acInit, acSnapshot, acQueue,
                 collected, results, written, yielded, yieldedIdx, pulling,
                 closing, exc, lastPull, ref, refWorkers>>
  /\ UNCHANGED iovars

\* Executor.__exit__: shutdown(wait=True) returns once every submitted task
\* has run.
ShutdownNoWait == TRUE

ShutdownReady == \A i \in Idx : fstate[i] \in {"none", "finished"}

\* Leaving the with block: the pool is shut down, then the body returns,
\* re-raises the task's exception, or finishes the close.
Exit ==
  /\ pc = "exit"
  /\ ShutdownReady
  /\ pool' = "closed"
  /\ pc' = IF closing THEN "closed"
           ELSE IF exc # NoneV THEN "raised"
           ELSE IF mode = "list" THEN "returned" ELSE "exhausted"
  /\ lastPull' = IF mode = "list" \/ closing THEN lastPull
                 ELSE IF exc # NoneV THEN "exc" ELSE "stop"
  /\ pulling' = FALSE
  /\ closing' = FALSE
  /\ UNCHANGED <<func, data, mode, workers, nsub, fstate, fres, ncalls,
                 callArgs, finishOrder, waiter, acInit, acSnapshot, acQueue,
                 collected, results, written, yielded, yieldedIdx, exc, ref,
                 refWorkers>>
  /\ UNCHANGED iovars

\* ------------------------------------------------------------------- pool
\* A free worker takes the oldest queued work item.
WorkerStart ==
  /\ pool \in {"open", "closed"}
  /\ Running < workers
  /\ \E i \in Idx :
       /\ fstate[i] = "pending"
       /\ \A j \in Idx : fstate[j] = "pending" => i <= j
       /\ fstate' = [fstate EXCEPT ![i] = "running"]
  /\ UNCHANGED <<func, data, mode, workers, pc, pool, nsub, fres, ncalls,
                 callArgs, finishOrder, waiter, acInit, acSnapshot, acQueue,
                 collected, results, written, yielded, yieldedIdx, pulling,
                 closing, exc, lastPull, ref, refWorkers>>
  /\ UNCHANGED iovars

\* The worker runs _call_func(func, item) and sets the future's outcome; a
\* waiter installed by as_completed is notified in finishing order.
WorkerFinish ==
  /\ \E i \in Idx :
       /\ fstate[i] = "running"
       /\ fstate' = [fstate EXCEPT ![i] = "finished"]
       /\ ncalls' = [ncalls EXCEPT ![i] = @ + 1]
       /\ callArgs' = [callArgs EXCEPT ![i] = CallArgs(data[i])]
       /\ fres' = [fres EXCEPT ![i] = Invoke(func, CallArgs(data[i]))]
       /\ finishOrder' = Append(finishOrder, i)
       /\ acQueue' = IF waiter THEN Append(acQueue, i) ELSE acQueue
  /\ UNCHANGED <<func, data, mode, workers, pc, pool, nsub, waiter, acInit,
                 acSnapshot, collected, results, written, yielded, yieldedIdx,
                 pulling, closing, exc, lastPull, ref, refWorkers>>
  /\ UNCHANGED iovars

\* The multiset of a sequence of values: value |-> number of occurrences.
Multiset(seq) ==
  [v \in {seq[k] : k \in DOMAIN seq} |->
     Cardinality({k \in DOMAIN seq : seq[k] = v})]

\* What a completed call handed to its caller.
Outcome == IF mode = "list" THEN results ELSE Multiset(yielded)

\* The caller repeats a call that ended with the same func and data and
\* another pool width; the outcome of the first complete call is remembered.
CallAgain ==
  /\ pc \in {"returned", "exhausted", "raised", "closed"}
  /\ \E w \in (1..MaxWorkers) \ {workers} :
       /\ workers' = w
       /\ pc' = IF mode = "list" THEN "start" ELSE "created"
  /\ IF refWorkers = 0 /\ pc \in {"returned", "exhausted"}
     THEN ref' = Outcome /\ refWorkers' = workers
     ELSE UNCHANGED <<ref, refWorkers>>
  /\ pool' = "none"
  /\ nsub' = 0
  /\ fstate' = [i \in Idx |-> "none"]
  /\ fres' = [i \in Idx |-> [ok |-> TRUE, val |-> NoneV]]
  /\ ncalls' = [i \in Idx |-> 0]
  /\ callArgs' = [i \in Idx |-> <<>>]
  /\ finishOrder' = <<>>
  /\ waiter' = FALSE
  /\ acInit' = {}
  /\ acSnapshot' = {}
  /\ acQueue' = <<>>
  /\ collected' = <<>>
  /\ results' = <<>>
  /\ written' = {}
  /\ yielded' = <<>>
  /\ yieldedIdx' = <<>>
  /\ pulling' = FALSE
  /\ closing' = FALSE
  /\ exc' = NoneV
  /\ lastPull' = "none"
  /\ UNCHANGED <<func, data, mode>>
  /\ UNCHANGED iovars

Next ==
  \/ ConsumerPull
  \/ ConsumerPullFinished
  \/ ConsumerClose
  \/ Enter
  \/ Submit
  \/ AsCompletedStart
  \/ Collect
  \/ CollectDone
  \/ Exit
  \/ WorkerStart
  \/ WorkerFinish

Spec == Init /\ [][Next]_vars

\* The same call repeated with different pool widths.
NextW ==
  \/ Next
  \/ CallAgain

SpecW == Init /\ [][NextW]_vars

\* ------------------------------------------------------- file operations
\* The parallel runners are idle while the file helpers are exercised.
IdleRunner ==
  /\ Fresh("square", <<>>, "list", 1)
  /\ ref = <<>>
  /\ refWorkers = 0

InitIO ==
  /\ fs \in {f \in [UPaths -> InitialNodes] : ValidFS(f)}
  /\ fsBefore = fs
  /\ op = NoOp
  /\ IdleRunner

copy_file ==
  /\ op.name = "none"
  /\ \E src \in CopyPaths, dst \in CopyPaths, overwrite \in BOOLEAN :
       LET r == Transfer(fs, src, dst, overwrite, "copy")
       IN /\ fs' = r.fs
          /\ op' = [NoOp EXCEPT !.name = "copy_file", !.src = src,
                                !.dst = dst, !.overwrite = overwrite,
                                !.exc = r.exc,
                                !.ret = IF r.exc = "none" THEN dst ELSE <<>>]
  /\ fsBefore' = fs
  /\ UNCHANGED pvars

\* The source of a move is a file or missing: moving folders is not modelled.
move_file ==
  /\ op.name = "none"
  /\ \E src \in CopyPaths, dst \in CopyPaths, overwrite \in BOOLEAN :
       /\ ~IsDir(fs, src)
       /\ LET r == Transfer(fs, src, dst, overwrite, "move")
          IN /\ fs' = r.fs
             /\ op' = [NoOp EXCEPT !.name = "move_file", !.src = src,
                                   !.dst = dst, !.overwrite = overwrite,
                                   !.exc = r.exc,
                                   !.ret = IF r.exc = "none" THEN dst
                                           ELSE <<>>]
  /\ fsBefore' = fs
  /\ UNCHANGED pvars

save_file ==
  /\ op.name = "none"
  /\ \E obj \in {StrData, FrameData}, folder \in Folders,
        filetype \in FileTypes, overwrite \in BOOLEAN :
       LET r == Save(fs, obj, folder, "f", filetype, overwrite)
       IN /\ fs' = r.fs
          /\ op' = [NoOp EXCEPT !.name = "save_file", !.src = folder,
                                !.dst = Append(folder, FileName("f", filetype)),
                                !.overwrite = overwrite, !.data = obj,
                                !.filetype = filetype, !.exc = r.exc,
                                !.ret = IF r.exc = "none"
                                        THEN Append(folder,
                                                    FileName("f", filetype))
                                        ELSE <<>>]
  /\ fsBefore' = fs
  /\ UNCHANGED pvars

create_folderpath ==
  /\ op.name = "none"
  /\ \E path \in Folders :
       /\ fs' = IF MkdirError(fs, path) = "none" THEN MkdirParents(fs, path)
                ELSE fs
       /\ op' = [NoOp EXCEPT !.name = "create_folderpath", !.dst = path,
                             !.exc = MkdirError(fs, path),
                             !.ret = IF MkdirError(fs, path) = "none"
                                     THEN path ELSE <<>>]
  /\ fsBefore' = fs
  /\ UNCHANGED pvars

NextIO ==
  \/ copy_file
  \/ move_file
  \/ save_file
  \/ create_folderpath

SpecIO == InitIO /\ [][NextIO]_vars

\* ----------------------------------------------------------- properties
\* Position of a future in a sequence of futures (0: absent).
Pos(seq, i) == IF \E k \in DOMAIN seq : seq[k] = i
               THEN CHOOSE k \in DOMAIN seq : seq[k] = i
               ELSE 0

\* The value the task of input i produces.
TaskValue(i) == Invoke(func, CallArgs(data[i])).val

\* C1: a list returned by run_parallel_list has len(data) elements and its
\* element i is the result of the task made from data[i], whatever the
\* order in which the tasks completed.
C1_ListInInputOrder ==
  (mode = "list" /\ pc = "returned") =>
     /\ Len(results) = Len(data)
     /\ \A i \in Idx : results[i] = TaskValue(i)

\* A list was returned although the second task finished before the first
\* and the two results differ.
C1_Witness ==
  /\ mode = "list" /\ pc = "returned"
  /\ N >= 2
  /\ Pos(finishOrder, 2) < Pos(finishOrder, 1)
  /\ collected[1] # 1
  /\ results[1] # results[2]

\* C2: a fully iterated stream in which no task raised has yielded exactly
\* the multiset of the tasks' results: one per input item, duplicates kept.
C2_StreamMultiset ==
  (mode = "stream" /\ pc = "exhausted") =>
     /\ Len(yielded) = Len(data)
     /\ Multiset(yielded) = Multiset([i \in Idx |-> TaskValue(i)])

\* A stream was exhausted after yielding two equal results out of input
\* order.
C2_Witness ==
  /\ mode = "stream" /\ pc = "exhausted"
  /\ N >= 2
  /\ yielded[1] = yielded[2]
  /\ yieldedIdx[1] = 2

\* C3: run_parallel_list is all-or-nothing: once the call has ended, it has
\* raised if any task raised, and a returned list has every slot written by
\* its own task's result.
C3_ListAllOrNothing ==
  (mode = "list" /\ pc \in {"returned", "raised"}) =>
     /\ (\E i \in Idx : fstate[i] = "finished" /\ ~fres[i].ok)
           => (pc = "raised" /\ exc # NoneV)
     /\ pc = "returned" =>
           /\ written = Idx
           /\ \A i \in Idx : fstate[i] = "finished" /\ fres[i].ok
                             /\ results[i] = fres[i].val

\* The call raised although another task's result had already been stored.
C3_Witness ==
  /\ mode = "list" /\ pc = "raised"
  /\ written # {}
  /\ \E i \in Idx : ~fres[i].ok /\ fstate[i] = "finished"

\* C4: in a stream a failed task's exception reaches the consumer at the
\* pull that collects it; afterwards nothing is yielded and every pull ends
\* the iteration; a stream with a failed task never ends as if complete.
C4_StreamState ==
  mode = "stream" =>
     /\ (collected # <<>> /\ ~fres[collected[Len(collected)]].ok)
           => /\ pc \in {"exit", "raised"}
              /\ exc = fres[collected[Len(collected)]].val
              /\ pc = "exit" => pulling
     /\ pc = "raised" => (exc # NoneV /\ lastPull \in {"exc", "stop"})
     /\ pc = "exhausted" => \A i \in Idx : fres[i].ok

C4_StreamStep ==
  /\ (mode = "stream" /\ pc = "exit" /\ exc # NoneV /\ pc' # "exit")
        => (pc' = "raised" /\ lastPull' = "exc" /\ ~pulling')
  /\ (mode = "stream" /\ pc = "raised")
        => (pc' = "raised" /\ yielded' = yielded
            /\ lastPull' \in {lastPull, "stop"})

C4_StreamRaises == []C4_StreamState /\ [][C4_StreamStep]_vars

\* The consumer got a value, then the exception, then the end of the
\* iteration.
C4_Witness ==
  /\ mode = "stream" /\ pc = "raised"
  /\ yielded # <<>>
  /\ lastPull = "stop"

\* C5: on every exit path (list returned or raised; generator exhausted,
\* raised or closed) the pool is shut down and no submitted task is pending
\* or running.
C5_PoolShutDown ==
  pc \in {"returned", "raised", "exhausted", "closed"} =>
     /\ pool = "closed" \/ (pool = "none" /\ nsub = 0)
     /\ \A i \in Idx : fstate[i] \notin {"pending", "running"}

\* The generator was closed early, with a task not collected, after the
\* pool had drained.
C5_Witness ==
  /\ mode = "stream" /\ pc = "closed" /\ pool = "closed"
  /\ Len(collected) < N
  /\ \A i \in Idx : fstate[i] = "finished"

C5_WitnessRaised ==
  /\ mode = "list" /\ pc = "raised" /\ pool = "closed"
  /\ Len(collected) < N

\* C6 (as stated): results are yielded in completion order: a task that
\* finished before another has its result yielded before the other's.
C6_CompletionOrder ==
  mode = "stream" =>
     \A a, b \in Idx :
        (/\ Pos(yieldedIdx, a) > 0 /\ Pos(yieldedIdx, b) > 0
         /\ Pos(finishOrder, a) < Pos(finishOrder, b))
           => Pos(yieldedIdx, a) < Pos(yieldedIdx, b)

\* C6 (amended): completion order holds for a task B that was still
\* unfinished when as_completed started: every task that finished before B
\* and is yielded, is yielded before B.
C6_CompletionOrderAfterStart ==
  mode = "stream" =>
     \A a, b \in Idx :
        (/\ Pos(yieldedIdx, a) > 0 /\ Pos(yieldedIdx, b) > 0
         /\ b \notin acSnapshot
         /\ Pos(finishOrder, a) < Pos(finishOrder, b))
           => Pos(yieldedIdx, a) < Pos(yieldedIdx, b)

\* Two tasks finished out of input order after as_completed had started and
\* were yielded in that order.
C6_Witness ==
  /\ mode = "stream"
  /\ N >= 2
  /\ acSnapshot = {}
  /\ finishOrder = <<2, 1>>
  /\ yieldedIdx = <<2, 1>>

\* C7: a complete call gives the same outcome (the list, the multiset of
\* the stream) as the first complete call with the same func and data made
\* with another pool width.
C7_WidthIndependent ==
  (refWorkers # 0 /\ pc \in {"returned", "exhausted"}) => Outcome = ref

\* A call with more workers than items completed after one with a single
\* worker, and the other way round.
C7_Witness ==
  /\ refWorkers = 1 /\ workers > N /\ N >= 2
  /\ pc \in {"returned", "exhausted"}
  /\ Outcome = ref

C7_WitnessNarrow ==
  /\ refWorkers > N /\ workers = 1 /\ N >= 2
  /\ pc \in {"returned", "exhausted"}

\* C8: a task invokes the target exactly once; a list or tuple item is
\* spread into positional arguments (none for an empty one), any other item
\* is passed as the single argument.
C8_ArgumentUnpacking ==
  \A i \in Idx :
     /\ ncalls[i] = (IF fstate[i] = "finished" THEN 1 ELSE 0)
     /\ fstate[i] = "finished" =>
          IF data[i].kind = "tuple" \/ data[i].kind = "list"
          THEN /\ Len(callArgs[i]) = Len(data[i].elems)
               /\ \A k \in 1..Len(callArgs[i]) :
                     callArgs[i][k] = data[i].elems[k]
          ELSE /\ Len(callArgs[i]) = 1
               /\ callArgs[i][1] = data[i]

\* Tasks ran on a string, an empty tuple and a two-element list.
C8_Witness ==
  /\ \E i \in Idx : fstate[i] = "finished" /\ data[i].kind = "str"
                    /\ Len(callArgs[i]) = 1
  /\ \E i \in Idx : fstate[i] = "finished" /\ data[i].kind = "tuple"
                    /\ callArgs[i] = <<>>

C8_WitnessList ==
  \E i \in Idx : fstate[i] = "finished" /\ data[i].kind = "list"
                 /\ Len(callArgs[i]) = 2

\* The folders above a path are folders or missing.
ParentFoldersFree(f, p) ==
  \A q \in Prefixes(Parent(p)) : f[q].kind \in {"absent", "dir"}

\* C9: with the target existing and overwrite False, copy_file and move_file
\* (of an existing source) and save_file raise FileExistsError and change
\* nothing; with overwrite True an existing target file is replaced: it
\* holds the content of the source (copy, move) or the saved text; with the
\* source missing, copy_file and move_file raise FileNotFoundError and
\* create no folder.
C9_OverwriteProtection ==
  /\ (/\ op.name \in {"copy_file", "move_file"}
      /\ Exists(fsBefore, op.src)
      /\ Exists(fsBefore, op.dst) /\ ~op.overwrite)
        => (op.exc = "FileExistsError" /\ fs = fsBefore)
  /\ (/\ op.name = "save_file"
      /\ Exists(fsBefore, op.dst) /\ ~op.overwrite)
        => (op.exc = "FileExistsError" /\ fs = fsBefore)
  /\ (/\ op.name \in {"copy_file", "move_file"}
      /\ IsFile(fsBefore, op.src)
      /\ IsFile(fsBefore, op.dst) /\ op.overwrite)
        => (IsFile(fs, op.dst)
            /\ fs[op.dst].content = fsBefore[op.src].content)
  /\ (/\ op.name = "save_file"
      /\ IsFile(fsBefore, op.dst) /\ op.overwrite)
        => (op.exc = "none" /\ IsFile(fs, op.dst)
            /\ fs[op.dst].content =
                 (IF op.data = StrData THEN "new"
                  ELSE IF op.filetype = "csv" THEN "csv(df)"
                  ELSE "repr(df)"))
  /\ (/\ op.name \in {"copy_file", "move_file"}
      /\ ~Exists(fsBefore, op.src))
        => (op.exc = "FileNotFoundError" /\ fs = fsBefore)

\* copy_file with overwrite True replaced a target file whose content
\* differed from the source's.
C9_Witness ==
  /\ op.name = "copy_file" /\ op.overwrite /\ op.exc = "none"
  /\ IsFile(fsBefore, op.src) /\ IsFile(fsBefore, op.dst)
  /\ fsBefore[op.dst].content # fsBefore[op.src].content
  /\ fs[op.dst].content = fsBefore[op.src].content

C9_WitnessRefused ==
  /\ op.name = "move_file" /\ ~op.overwrite /\ op.exc = "FileExistsError"
  /\ IsFile(fsBefore, op.src) /\ IsFile(fsBefore, op.dst)

C9_WitnessMissing ==
  /\ op.name = "copy_file" /\ op.exc = "FileNotFoundError"
  /\ ~Exists(fsBefore, Parent(op.dst))

\* C10: for an existing source file and a missing target whose parent
\* folders exist or are missing, move_file and copy_file succeed and return
\* dst; afterwards every parent folder of dst exists, dst holds the former
\* content of src, src is gone (move) or unchanged (copy), and nothing else
\* has changed.
C10_MoveCopyToNewTarget ==
  (/\ op.name \in {"copy_file", "move_file"}
   /\ IsFile(fsBefore, op.src)
   /\ ~Exists(fsBefore, op.dst)
   /\ ParentFoldersFree(fsBefore, op.dst))
     => /\ op.exc = "none"
        /\ op.ret = op.dst
        /\ \A q \in Prefixes(Parent(op.dst)) : IsDir(fs, q)
        /\ IsFile(fs, op.dst)
        /\ fs[op.dst].content = fsBefore[op.src].content
        /\ op.name = "move_file" => ~Exists(fs, op.src)
        /\ op.name = "copy_file" => fs[op.src] = fsBefore[op.src]
        /\ \A q \in UPaths \ ({op.src, op.dst} \cup Prefixes(Parent(op.dst))) :
              fs[q] = fsBefore[q]

\* move_file created two missing folders and moved the file into them.
C10_Witness ==
  /\ op.name = "move_file" /\ op.exc = "none"
  /\ op.dst = Append(DE, "f.txt")
  /\ ~Exists(fsBefore, D)
  /\ IsDir(fs, D) /\ IsDir(fs, DE)
  /\ ~Exists(fs, op.src) /\ IsFile(fs, op.dst)

C10_WitnessCopy ==
  /\ op.name = "copy_file" /\ op.exc = "none"
  /\ op.dst = Append(DE, "f.txt")
  /\ ~Exists(fsBefore, D)
  /\ IsFile(fs, op.src) /\ IsFile(fs, op.dst)

\* C11: a successful save_file with a type that is not supported (anything
\* but "csv" with a DataFrame) writes and returns <folder>/<filename>.txt,
\* a plain-text file holding str(data).
C11_FallbackSavesTxt ==
  (/\ op.name = "save_file"
   /\ op.exc = "none"
   /\ ~(op.filetype = "csv" /\ op.data = FrameData))
     => /\ op.ret = Append(op.src, FileName("f", "txt"))
        /\ IsFile(fs, Append(op.src, FileName("f", "txt")))
        /\ fs[Append(op.src, FileName("f", "txt"))].content = StrOf(op.data)

\* C12: run_parallel_stream submits everything up front: nothing is
\* submitted before the first pull; while an item of the input is still
\* unsubmitted nothing has been yielded and, unless the generator was closed
\* unstarted, the first pull has not come back (so an input that never ends
\* never gives a result); once a value has been yielded no further task is
\* submitted.
C12_StreamState ==
  mode = "stream" =>
     /\ pc = "created" => nsub = 0
     /\ nsub < N => (yielded = <<>> /\ (pc # "closed" => lastPull = "none")
                     /\ pc \in {"created", "closed", "start", "submit"}
                     /\ (pc \in {"start", "submit"} => pulling))
     /\ yielded # <<>> => \A i \in Idx : fstate[i] # "none"

C12_StreamStep ==
  (mode = "stream" /\ yielded # <<>>) => (nsub' = nsub /\ nsub = N)

C12_SubmitAllUpFront == []C12_StreamState /\ [][C12_StreamStep]_vars

\* The first value was yielded while another submitted task had not yet
\* finished.
C12_Witness ==
  /\ mode = "stream" /\ pc = "yielded"
  /\ Len(yielded) = 1
  /\ nsub = N /\ N >= 2
  /\ \E i \in Idx : fstate[i] \in {"pending", "running"}

====
